---- MODULE Spec2Model ----
(***************************************************************************)
(* Model of atlasify_selected_object.py: per-slot channel resolution,     *)
(* atlas layout and compositing (_build_atlases) and the per-slot UV      *)
(* remap (_remap_uvs_to_atlas_with_slot_uv), as driven by main().         *)
(*                                                                         *)
(* Python None is modelled by the empty string (paths, names), by node    *)
(* index 0 (a node that was not found / a socket that is not linked) and   *)
(* by 0 for TILE_W / TILE_H.  Slot indices and loop indices are 0-based    *)
(* as in the source; TLA+ sequences are 1-based, hence the "+ 1".          *)
(* UV coordinates are exact rationals [n, d] in lowest terms.              *)
(***************************************************************************)
EXTENDS Integers, Sequences, FiniteSets, TLC

VARIABLES cfg, materials, obj, pc, idx, slot_images, slot_to_src_uv,
          atlas, manifest, dup, err

vars == <<cfg, materials, obj, pc, idx, slot_images, slot_to_src_uv,
          atlas, manifest, dup, err>>

\* ------------------------------------------------------------ bounds
MaxSlots == 3

\* --------------------------------------------------------- rationals
RECURSIVE Gcd(_, _)
Gcd(a, b) == IF b = 0 THEN a ELSE Gcd(b, a % b)

Abs(x) == IF x < 0 THEN -x ELSE x

Rat(n, d) ==
    LET g == Gcd(Abs(n), Abs(d))
    IN  [n |-> n \div g, d |-> d \div g]

RatAdd(a, b) == Rat(a.n * b.d + b.n * a.d, a.d * b.d)
RatSub(a, b) == Rat(a.n * b.d - b.n * a.d, a.d * b.d)
RatMul(a, b) == Rat(a.n * b.n, a.d * b.d)
RatLe(a, b)  == a.n * b.d <= b.n * a.d
RatLt(a, b)  == a.n * b.d <  b.n * a.d
Zero == Rat(0, 1)
One  == Rat(1, 1)
Half == Rat(1, 2)

\* ----------------------------------------------------- shader graphs
NoImage == [path |-> "", w |-> 0, h |-> 0, nonColor |-> FALSE]
Img(path, w, h, nonColor) == [path |-> path, w |-> w, h |-> h, nonColor |-> nonColor]

NoInputs == [Vector |-> 0, Color |-> 0, BaseColor |-> 0, Normal |-> 0,
             Roughness |-> 0, Metallic |-> 0]

\* keys: the keywords k of the name heuristics with  k in node.name.lower()
Node(type, keys, image, uv_map, inputs) ==
    [type |-> type, keys |-> keys, image |-> image, uv_map |-> uv_map, inputs |-> inputs]

Principled(inputs) == Node("BSDF_PRINCIPLED", {}, NoImage, "", inputs)
TexImage(keys, image, vector) ==
    Node("TEX_IMAGE", keys, image, "", [NoInputs EXCEPT !.Vector = vector])
NormalMap(color) == Node("NORMAL_MAP", {}, NoImage, "", [NoInputs EXCEPT !.Color = color])
Mapping(vector)  == Node("MAPPING", {}, NoImage, "", [NoInputs EXCEPT !.Vector = vector])
UVMap(name)      == Node("UVMAP", {}, NoImage, name, NoInputs)

Material(name, use_nodes, nodes) == [name |-> name, use_nodes |-> use_nodes, nodes |-> nodes]

\* for node in nt.nodes: if <test>: return node -- the first node of those
\* passing the test, 0 for None
FirstNode(found) ==
    IF found # {} THEN CHOOSE i \in found : \A j \in found : i <= j ELSE 0

\* the indices of the nodes of nt with node.type == 'TEX_IMAGE'
TexImages(nt) == {i \in DOMAIN nt : nt[i].type = "TEX_IMAGE"}

IsTexImage(n) == n.type = "TEX_IMAGE"

_find_principled(nt) == FirstNode({i \in DOMAIN nt : nt[i].type = "BSDF_PRINCIPLED"})

\* _find_image_input_socket_link, given the linked node index of the socket
_find_image_input_socket_link(nt, from) ==
    IF from = 0 THEN 0
    ELSE IF nt[from].type = "TEX_IMAGE" THEN from ELSE 0

ColorKeys == {"base", "albedo", "diff", "color"}
RoughKeys == {"rough", "glossy", "gloss"}
MetalKeys == {"metal", "metallic", "metalness"}

_find_basecolor_image_node(nt, principled) ==
    LET n == _find_image_input_socket_link(nt, nt[principled].inputs.BaseColor)
        byName == {i \in TexImages(nt) : nt[i].keys \cap ColorKeys # {}}
    IN  IF n # 0 THEN n
        ELSE IF byName # {} THEN FirstNode(byName)
        ELSE FirstNode(TexImages(nt))

_find_normal_image_node(nt, principled) ==
    LET nmap == nt[principled].inputs.Normal
        viaMap == IF nmap # 0 /\ nt[nmap].type = "NORMAL_MAP" /\ nt[nmap].inputs.Color # 0
                     /\ nt[nt[nmap].inputs.Color].type = "TEX_IMAGE"
                  THEN nt[nmap].inputs.Color ELSE 0
        n == _find_image_input_socket_link(nt, nmap)
        nonColor == {i \in TexImages(nt) : nt[i].image.path # "" /\ nt[i].image.nonColor}
    IN  IF viaMap # 0 THEN viaMap
        ELSE IF n # 0 THEN n
        ELSE FirstNode(nonColor)

_find_roughness_image_node(nt, principled) ==
    LET n == _find_image_input_socket_link(nt, nt[principled].inputs.Roughness)
        byName == {i \in TexImages(nt) : nt[i].keys \cap RoughKeys # {}}
    IN  IF n # 0 THEN n ELSE FirstNode(byName)

_find_metalness_image_node(nt, principled) ==
    LET n == _find_image_input_socket_link(nt, nt[principled].inputs.Metallic)
        byName == {i \in TexImages(nt) : nt[i].keys \cap MetalKeys # {}}
    IN  IF n # 0 THEN n ELSE FirstNode(byName)

\* _upstream_uvmap_name: follow the Vector input upstream to a UVMAP node;
\* "" for None.  Every node has one Vector input, so the stack holds one node.
RECURSIVE UpstreamWalk(_, _, _)
UpstreamWalk(nt, node, visited) ==
    IF node \in visited THEN ""
    ELSE IF nt[node].inputs.Vector = 0 THEN ""
    ELSE LET from == nt[node].inputs.Vector
         IN  IF nt[from].type = "UVMAP" THEN nt[from].uv_map
             ELSE UpstreamWalk(nt, from, visited \cup {node})

_upstream_uvmap_name(nt, tex_image_node) ==
    IF tex_image_node = 0 THEN "" ELSE UpstreamWalk(nt, tex_image_node, {})

\* Python's  a or b  on names
Or(a, b) == IF a # "" THEN a ELSE b

\* _image_to_path: the existing file, or the path the packed image is saved to;
\* either way a path that exists afterwards
_image_to_path(img) == img.path

NodeImage(nt, node) == IF node = 0 THEN NoImage ELSE nt[node].image

\* ------------------------------------------------------------ layout
\* faulty variant of _pow2: the loop runs while p <= n
RECURSIVE Pow2FromStrict(_, _)
Pow2FromStrict(p, n) == IF p <= n THEN Pow2FromStrict(2 * p, n) ELSE p

Pow2Strict(n) == Pow2FromStrict(1, n)

\* _pow2: p = 1; while p < n: p <<= 1
RECURSIVE Pow2From(_, _)
Pow2From(p, n) == IF p < n THEN Pow2From(2 * p, n) ELSE p

_pow2(n) == Pow2From(1, n)

Max(a, b) == IF a >= b THEN a ELSE b
Min(a, b) == IF a <= b THEN a ELSE b

\* faulty variant of CeilSqrt: math.floor(math.sqrt(n))
FloorSqrt(n) == CHOOSE c \in 1..n : c * c <= n /\ (c + 1) * (c + 1) > n

\* math.ceil(math.sqrt(n)) and math.ceil(n / cols), n >= 1
CeilSqrt(n) == CHOOSE c \in 1..n : c * c >= n /\ (c - 1) * (c - 1) < n
CeilDiv(n, d) == (n + d - 1) \div d

Layout(mode, r, c) == [mode |-> mode, r |-> r, c |-> c]

\* _choose_layout(n) under LAYOUT; the result is <<rows, cols>>
_choose_layout(LAYOUT, n) ==
    IF LAYOUT.mode = "grid" THEN <<Max(1, LAYOUT.r), Max(1, LAYOUT.c)>>
    ELSE IF LAYOUT.mode = "row" THEN <<1, n>>
    ELSE IF LAYOUT.mode = "col" THEN <<n, 1>>
    ELSE LET cols == CeilSqrt(n)
         IN  <<CeilDiv(n, cols), cols>>

\* ------------------------------------------------------- compositing
\* the image files of the scene
ImgA  == Img("a.png", 2, 1, FALSE)
ImgB  == Img("b.png", 1, 3, FALSE)
ImgN  == Img("n.png", 1, 1, TRUE)
ImgR  == Img("r.png", 1, 2, TRUE)
ImgM  == Img("m.png", 1, 1, TRUE)
ImgR2 == Img("r2.png", 3, 2, FALSE)
Images == {ImgA, ImgB, ImgN, ImgR, ImgM, ImgR2}

\* Image.open(path).size
ImageSize(path) ==
    LET im == CHOOSE i \in Images : i.path = path
    IN  <<im.w, im.h>>

\* Image.new(mode, (tw, th), fill) of place()'s else branch
DefaultTile(is_normal, is_grayscale) ==
    IF is_grayscale THEN [mode |-> "L", fill |-> <<128>>]
    ELSE IF is_normal THEN [mode |-> "RGBA", fill |-> <<128, 128, 255, 255>>]
    ELSE [mode |-> "RGB", fill |-> <<0, 0, 0>>]

\* place(): the tile pasted at (x, y); src is the path of the resized source
\* image, "" for a generated default tile
place(img_path, x, y, tw, th, is_normal, is_grayscale) ==
    LET d == DefaultTile(is_normal, is_grayscale)
    IN  IF img_path # ""
        THEN [x |-> x, y |-> y, src |-> img_path, mode |-> d.mode,
              size |-> <<tw, th>>, fill |-> <<>>]
        ELSE [x |-> x, y |-> y, src |-> "", mode |-> d.mode,
              size |-> <<tw, th>>, fill |-> d.fill]

SeqMax(s) == CHOOSE m \in {s[i] : i \in DOMAIN s} : \A i \in DOMAIN s : s[i] <= m

\* canvas size of one axis before power-of-two rounding
CanvasExtent(cells, tile, padding) == cells * tile + (cells + 1) * padding

CanvasSize(extent, force_pow2) == IF force_pow2 THEN _pow2(extent) ELSE extent

\* pixel rect of grid cell (r, c): [x0, y0, x1, y1]
CellRect(r, c, tw, th, padding) ==
    LET x0 == padding + c * (tw + padding)
        y0 == padding + r * (th + padding)
    IN  <<x0, y0, x0 + tw, y0 + th>>

\* number of loop iterations of the placement loop that place a tile
PlacedCount(rows, cols, n) == Min(n, rows * cols)

\* faulty variant of RectUV: v without swapping the top and the bottom edge
RectUVNoSwap(px, W, H) ==
    [u0 |-> Rat(px[1], W), v0 |-> RatSub(One, Rat(px[2], H)),
     u1 |-> Rat(px[3], W), v1 |-> RatSub(One, Rat(px[4], H))]

\* rects_uv of one pixel rect
RectUV(px, W, H) ==
    [u0 |-> Rat(px[1], W), v0 |-> RatSub(One, Rat(px[4], H)),
     u1 |-> Rat(px[3], W), v1 |-> RatSub(One, Rat(px[2], H))]

NoManifest == [written |-> FALSE, image_size_px |-> <<0, 0>>, tile_size_px |-> <<0, 0>>,
               padding_px |-> 0, rows_cols |-> <<0, 0>>,
               rects_uv_by_slot_index |-> <<>>]

NoAtlas == [saved |-> FALSE, base |-> <<>>, norm |-> <<>>, rough |-> <<>>, metal |-> <<>>,
            rects_px |-> <<>>]

\* Image.open(s['base_path']) raises when base_path is None
OpenRaises(images) == \E i \in DOMAIN images : images[i].base_path = ""

\* _build_atlases past the size probe: [atlas, manifest]
_build_atlases(images, c) ==
    LET n    == Len(images)
        tw   == IF c.TILE_W # 0 THEN c.TILE_W
                ELSE SeqMax([i \in 1..n |-> ImageSize(images[i].base_path)[1]])
        th   == IF c.TILE_H # 0 THEN c.TILE_H
                ELSE SeqMax([i \in 1..n |-> ImageSize(images[i].base_path)[2]])
        rc   == _choose_layout(c.LAYOUT, n)
        rows == rc[1]
        cols == rc[2]
        W    == CanvasSize(CanvasExtent(cols, tw, c.PADDING_PX), c.FORCE_POW2)
        H    == CanvasSize(CanvasExtent(rows, th, c.PADDING_PX), c.FORCE_POW2)
        k    == PlacedCount(rows, cols, n)
        px(i) == CellRect((i - 1) \div cols, (i - 1) % cols, tw, th, c.PADDING_PX)
        rects_px == [i \in 1..k |-> <<images[i].slot_index, px(i)>>]
    IN  [atlas |->
           [saved |-> TRUE,
            base  |-> [i \in 1..k |-> place(images[i].base_path, px(i)[1], px(i)[2],
                                            tw, th, FALSE, FALSE)],
            norm  |-> [i \in 1..k |-> place(images[i].normal_path, px(i)[1], px(i)[2],
                                            tw, th, TRUE, FALSE)],
            rough |-> [i \in 1..k |-> place(images[i].roughness_path, px(i)[1], px(i)[2],
                                            tw, th, FALSE, TRUE)],
            metal |-> [i \in 1..k |-> place(images[i].metalness_path, px(i)[1], px(i)[2],
                                            tw, th, FALSE, TRUE)],
            rects_px |-> rects_px],
         manifest |->
           [written |-> TRUE,
            image_size_px |-> <<W, H>>,
            tile_size_px |-> <<tw, th>>,
            padding_px |-> c.PADDING_PX,
            rows_cols |-> <<rows, cols>>,
            rects_uv_by_slot_index |->
                [i \in 1..k |-> [slot |-> rects_px[i][1], rect |-> RectUV(rects_px[i][2], W, H)]]]]

\* dict.get on rects_uv_by_slot_index: <<found, rect>>
HasRect(rects, slot_idx) == \E i \in DOMAIN rects : rects[i].slot = slot_idx
RectOf(rects, slot_idx) ==
    rects[CHOOSE i \in DOMAIN rects :
            rects[i].slot = slot_idx
            /\ \A j \in DOMAIN rects : rects[j].slot = slot_idx => j <= i].rect

\* ---------------------------------------------------------- UV remap
\* A mesh: uv_layers (name, per-loop data), the indices of the active and the
\* render-active layer (one each, as Blender keeps them; 0: none), polygons.
NoMesh == [uv_layers |-> <<>>, active |-> 0, active_render |-> 0, polygons |-> <<>>]

UV(u, v) == <<u, v>>

\* me.uv_layers.get(name): the layer's index, 0 for None
LayerIndex(me, name) ==
    IF \E i \in DOMAIN me.uv_layers : me.uv_layers[i].name = name
    THEN CHOOSE i \in DOMAIN me.uv_layers : me.uv_layers[i].name = name
    ELSE 0

LoopCount(me) ==
    IF me.polygons = <<>> THEN 0
    ELSE SeqMax([k \in DOMAIN me.polygons |->
                    me.polygons[k].loop_start + me.polygons[k].loop_total])

\* me.uv_layers.new(name=...): the new layer starts as a copy of the active one
uv_layers_new(me, name) ==
    LET data == IF me.active # 0 THEN me.uv_layers[me.active].data
                ELSE [i \in 1..LoopCount(me) |-> UV(Zero, Zero)]
    IN  [me EXCEPT !.uv_layers = Append(@, [name |-> name, data |-> data])]

\* dst = get(dst_uv_name) or new(...); active = dst; dst.active_render = True
RemapBegin(me, dst_uv_name) ==
    LET m  == IF LayerIndex(me, dst_uv_name) # 0 THEN me ELSE uv_layers_new(me, dst_uv_name)
        di == LayerIndex(m, dst_uv_name)
    IN  [m EXCEPT !.active = di, !.active_render = di]

\* slot_to_src_uv.get(slot_idx), "" for None
SrcUvOf(names, slot_idx) ==
    IF \E i \in DOMAIN names : names[i].slot = slot_idx
    THEN names[CHOOSE i \in DOMAIN names : names[i].slot = slot_idx].uv
    ELSE ""

\* fallback to active render, then active
FallbackLayer(me) == IF me.active_render # 0 THEN me.active_render ELSE me.active

\* which source UV to sample: the index of the layer src_data comes from
SrcLayer(me, names, slot_idx) ==
    LET src_name == SrcUvOf(names, slot_idx)
    IN  IF src_name # "" /\ LayerIndex(me, src_name) # 0
        THEN LayerIndex(me, src_name)
        ELSE FallbackLayer(me)

\* faulty variant of RemapLoopUV: scales by the far edge instead of the extent
RemapLoopUVByEdge(rect, uv) ==
    UV(RatAdd(rect.u0, RatMul(uv[1], rect.u1)),
       RatAdd(rect.v0, RatMul(uv[2], rect.v1)))

\* (u0 + su*du, v0 + sv*dv)
RemapLoopUV(rect, uv) ==
    UV(RatAdd(rect.u0, RatMul(uv[1], RatSub(rect.u1, rect.u0))),
       RatAdd(rect.v0, RatMul(uv[2], RatSub(rect.v1, rect.v0))))

\* the value written at one loop: copy through without a rect, else the remap
LoopValue(hasRect, rect, uv) == IF hasRect THEN RemapLoopUV(rect, uv) ELSE uv

\* for li in range(poly.loop_start, poly.loop_start + poly.loop_total)
RECURSIVE RemapLoops(_, _, _, _, _, _, _)
RemapLoops(me, di, si, hasRect, rect, li, end) ==
    IF li >= end THEN me
    ELSE LET v == LoopValue(hasRect, rect, me.uv_layers[si].data[li + 1])
         IN  RemapLoops([me EXCEPT !.uv_layers[di].data[li + 1] = v],
                        di, si, hasRect, rect, li + 1, end)

\* for poly_idx, poly in enumerate(me.polygons)
RECURSIVE RemapPolys(_, _, _, _, _, _)
RemapPolys(me, di, k, names, rects, cache) ==
    IF k > Len(me.polygons) THEN me
    ELSE LET poly     == me.polygons[k]
             slot_idx == cache[k]
             hasRect  == HasRect(rects, slot_idx)
             rect     == IF hasRect THEN RectOf(rects, slot_idx)
                         ELSE [u0 |-> Zero, v0 |-> Zero, u1 |-> Zero, v1 |-> Zero]
             si       == SrcLayer(me, names, slot_idx)
         IN  RemapPolys(RemapLoops(me, di, si, hasRect, rect, poly.loop_start,
                                   poly.loop_start + poly.loop_total),
                        di, k + 1, names, rects, cache)

_remap_uvs_to_atlas_with_slot_uv(me, names, dst_uv_name, rects, cache) ==
    LET m == RemapBegin(me, dst_uv_name)
    IN  RemapPolys(m, LayerIndex(m, dst_uv_name), 1, names, rects, cache)

\* poly_slot_index_cache = [p.material_index for p in obj.data.polygons]
PolySlotIndexCache(o) == [k \in DOMAIN o.polygons |-> o.polygons[k].material_index]

\* -------------------------------------------------------- the inputs
UV_NAME == "BAKE_ATLAS"

\* all four channels linked, sampled through Mapping <- UV Map "UVMap"
MatFull ==
    Material("Full", TRUE,
      << Principled([NoInputs EXCEPT !.BaseColor = 2, !.Normal = 3,
                                     !.Roughness = 5, !.Metallic = 6]),
         TexImage({}, ImgA, 7), NormalMap(4), TexImage({}, ImgN, 0),
         TexImage({}, ImgR, 0), TexImage({}, ImgM, 0), Mapping(8), UVMap("UVMap") >>)

\* an unlinked image node named "albedo", sampled through UV Map "BAKE_ATLAS"
MatColorOnly ==
    Material("ColorOnly", TRUE,
      << Principled(NoInputs), TexImage({"albedo"}, ImgB, 3), UVMap("BAKE_ATLAS") >>)

\* the only image node is linked to Roughness, sampled through UV Map "UV2"
MatRoughOnly ==
    Material("RoughOnly", TRUE,
      << Principled([NoInputs EXCEPT !.Roughness = 2]),
         TexImage({}, ImgR2, 3), Mapping(4), UVMap("UV2") >>)

\* Base Color is linked to an image node without an image; Normal has an image
MatNoBaseImage ==
    Material("NoBaseImage", TRUE,
      << Principled([NoInputs EXCEPT !.BaseColor = 2, !.Normal = 3]),
         TexImage({}, NoImage, 0), NormalMap(4), TexImage({}, ImgN, 0) >>)

\* no image node at all
MatEmpty == Material("Empty", TRUE, << Principled(NoInputs) >>)

Materials == {MatFull, MatColorOnly, MatRoughOnly, MatNoBaseImage, MatEmpty}

Config(layout, pow2, padding, tile_w, tile_h) ==
    [LAYOUT |-> layout, FORCE_POW2 |-> pow2, PADDING_PX |-> padding,
     TILE_W |-> tile_w, TILE_H |-> tile_h]

Layouts == {Layout("auto", 0, 0), Layout("row", 0, 0), Layout("col", 0, 0),
            Layout("grid", 1, 1), Layout("grid", 2, 2)}

\* the options as shipped (lines 14-19) and the 256 x 256, padding 16 row case
ShippedConfig == Config(Layout("auto", 0, 0), TRUE, 32, 0, 0)
RowConfig256  == Config(Layout("row", 0, 0), FALSE, 16, 256, 256)

Configs ==
    {Config(l, p, pad, 0, 0) : l \in Layouts, p \in BOOLEAN, pad \in {0, 1}}
        \cup {ShippedConfig, RowConfig256}

DataUVMap == << UV(Zero, Zero), UV(One, One), UV(Half, Half) >>
DataUV2   == << UV(One, Zero), UV(Zero, One), UV(Zero, Half) >>
DataStale == << UV(One, One), UV(Zero, Zero), UV(Half, Zero) >>

LayerSets ==
    { [uv_layers |-> << [name |-> "UVMap", data |-> DataUVMap] >>,
       active |-> 1, active_render |-> 1],
      [uv_layers |-> << [name |-> "UVMap", data |-> DataUVMap],
                        [name |-> "UV2", data |-> DataUV2] >>,
       active |-> 1, active_render |-> 2],
      [uv_layers |-> << [name |-> "UVMap", data |-> DataUVMap],
                        [name |-> UV_NAME, data |-> DataStale] >>,
       active |-> 1, active_render |-> 1] }

\* two polygons over three loops, each assigned to one of the n slots
Meshes(n) ==
    { [uv_layers |-> ls.uv_layers, active |-> ls.active, active_render |-> ls.active_render,
       polygons |-> << [loop_start |-> 0, loop_total |-> 2, material_index |-> a],
                       [loop_start |-> 2, loop_total |-> 1, material_index |-> b] >>] :
        ls \in LayerSets, a \in 0..(n - 1), b \in 0..(n - 1) }

SeqsUpTo(S, n) == UNION {[1..k -> S] : k \in 0..n}

\* ------------------------------------------------------------- main
Init ==
    /\ cfg \in Configs
    /\ materials \in SeqsUpTo(Materials, MaxSlots)
    /\ obj = NoMesh
    /\ dup = NoMesh
    /\ pc = "resolve"
    /\ idx = 0
    /\ slot_images = <<>>
    /\ slot_to_src_uv = <<>>
    /\ atlas = NoAtlas
    /\ manifest = NoManifest
    /\ err = ""

\* raise RuntimeError('The active object has no material slots.')
NoMaterialSlots ==
    /\ pc = "resolve"
    /\ Len(materials) = 0
    /\ pc' = "error"
    /\ err' = "no material slots"
    /\ UNCHANGED <<cfg, materials, obj, idx, slot_images, slot_to_src_uv, atlas, manifest, dup>>

\* the four channel nodes main() finds for one slot, and the paths of their images
ResolveChannels(nt, bsdf) ==
    LET base_node      == _find_basecolor_image_node(nt, bsdf)
        normal_node    == _find_normal_image_node(nt, bsdf)
        roughness_node == _find_roughness_image_node(nt, bsdf)
        metalness_node == _find_metalness_image_node(nt, bsdf)
    IN  [base_path      |-> _image_to_path(NodeImage(nt, base_node)),
         normal_path    |-> _image_to_path(NodeImage(nt, normal_node)),
         roughness_path |-> _image_to_path(NodeImage(nt, roughness_node)),
         metalness_path |-> _image_to_path(NodeImage(nt, metalness_node)),
         uvname |-> Or(_upstream_uvmap_name(nt, base_node),
                    Or(_upstream_uvmap_name(nt, normal_node),
                    Or(_upstream_uvmap_name(nt, roughness_node),
                       _upstream_uvmap_name(nt, metalness_node))))]

\* skip empty slots
AllEmpty(ch) ==
    ch.base_path = "" /\ ch.normal_path = "" /\ ch.roughness_path = ""
        /\ ch.metalness_path = ""

\* one iteration of  for idx, mat in enumerate(obj.data.materials)
ResolveSlot ==
    /\ pc = "resolve"
    /\ idx < Len(materials)
    /\ LET mat  == materials[idx + 1]
           nt   == mat.nodes
           bsdf == _find_principled(nt)
           ch   == ResolveChannels(nt, bsdf)
       IN  IF ~mat.use_nodes \/ bsdf = 0 \/ AllEmpty(ch)
           THEN UNCHANGED <<slot_images, slot_to_src_uv>>
           ELSE /\ slot_images' = Append(slot_images,
                      [slot_index |-> idx, slot_name |-> mat.name,
                       base_path |-> ch.base_path, normal_path |-> ch.normal_path,
                       roughness_path |-> ch.roughness_path,
                       metalness_path |-> ch.metalness_path])
                /\ slot_to_src_uv' = Append(slot_to_src_uv, [slot |-> idx, uv |-> ch.uvname])
    /\ idx' = idx + 1
    /\ UNCHANGED <<cfg, materials, obj, pc, atlas, manifest, dup, err>>

\* raise RuntimeError('No usable textures found in material slots ...')
NoUsableTextures ==
    /\ pc = "resolve"
    /\ Len(materials) > 0
    /\ idx = Len(materials)
    /\ slot_images = <<>>
    /\ pc' = "error"
    /\ err' = "no usable textures"
    /\ UNCHANGED <<cfg, materials, obj, idx, slot_images, slot_to_src_uv, atlas, manifest, dup>>

\* the call of _build_atlases(slot_images, out_dir, base_name)
BuildAtlases ==
    /\ pc = "resolve"
    /\ idx = Len(materials)
    /\ slot_images # <<>>
    /\ IF OpenRaises(slot_images)
       THEN /\ pc' = "error"
            /\ err' = "Image.open(None)"
            /\ UNCHANGED <<atlas, manifest>>
       ELSE LET b == _build_atlases(slot_images, cfg)
            IN  /\ atlas' = b.atlas
                /\ manifest' = b.manifest
                /\ pc' = "duplicate"
                /\ err' = err
    /\ UNCHANGED <<cfg, materials, obj, idx, slot_images, slot_to_src_uv, dup>>

\* bpy.ops.object.duplicate(); dup.data = dup.data.copy().  The geometry of the
\* active object is first read here.
Duplicate ==
    /\ pc = "duplicate"
    /\ \E m \in Meshes(Len(materials)) :
          /\ obj' = m
          /\ dup' = m
    /\ pc' = "remap"
    /\ UNCHANGED <<cfg, materials, idx, slot_images, slot_to_src_uv, atlas, manifest, err>>

\* _remap_uvs_to_atlas_with_slot_uv(dup, slot_to_src_uv, UV_NAME, rects, cache)
Remap ==
    /\ pc = "remap"
    /\ dup' = _remap_uvs_to_atlas_with_slot_uv(dup, slot_to_src_uv, UV_NAME,
                  manifest.rects_uv_by_slot_index, PolySlotIndexCache(obj))
    /\ pc' = "done"
    /\ UNCHANGED <<cfg, materials, obj, idx, slot_images, slot_to_src_uv, atlas, manifest, err>>

Next ==
    \/ NoMaterialSlots
    \/ ResolveSlot
    \/ NoUsableTextures
    \/ BuildAtlases
    \/ Duplicate
    \/ Remap

Spec == Init /\ [][Next]_vars

\* ============================================================ claims
Rows == manifest.rows_cols[1]
Cols == manifest.rows_cols[2]
CanvasW == manifest.image_size_px[1]
CanvasH == manifest.image_size_px[2]
TileW == manifest.tile_size_px[1]
TileH == manifest.tile_size_px[2]
Rects == manifest.rects_uv_by_slot_index
NSlots == Len(slot_images)

IsPow2(x) == \E e \in 0..20 : x = 2 ^ e

\* C1: under LAYOUT = 'auto' the grid written to the manifest has
\* cols = ceil(sqrt(N)) and rows = ceil(N / cols), so rows*cols >= N and
\* rows*cols < N + cols, one tile is placed per slot, and N = 3 gives a
\* 2 x 2 grid holding exactly 3 tiles.
C1_AutoLayout ==
    (manifest.written /\ cfg.LAYOUT.mode = "auto") =>
        /\ Cols >= 1 /\ Cols * Cols >= NSlots /\ (Cols - 1) * (Cols - 1) < NSlots
        /\ Rows >= 1 /\ Rows * Cols >= NSlots /\ (Rows - 1) * Cols < NSlots
        /\ Rows * Cols < NSlots + Cols
        /\ Len(atlas.base) = NSlots /\ Len(Rects) = NSlots
        /\ (NSlots = 3 => Rows = 2 /\ Cols = 2 /\ Len(atlas.base) = 3 /\ Len(Rects) = 3)

C1_Witness ==
    manifest.written /\ cfg.LAYOUT.mode = "auto" /\ NSlots = 3 /\ Len(atlas.base) = 3

\* C2: without FORCE_POW2 the canvas is exactly cols*tile_w + (cols+1)*padding by
\* rows*tile_h + (rows+1)*padding (560 x 288 for 2 slots in a row of 256 x 256
\* tiles with padding 16); with FORCE_POW2 each axis is the smallest power of two
\* that is >= that value, unchanged if the value is a power of two already.
C2_CanvasSize ==
    manifest.written =>
        LET rawW == Cols * TileW + (Cols + 1) * manifest.padding_px
            rawH == Rows * TileH + (Rows + 1) * manifest.padding_px
            Smallest(p, raw) == /\ IsPow2(p) /\ p >= raw
                                /\ (p > 1 => p \div 2 < raw)
                                /\ (IsPow2(raw) => p = raw)
        IN  /\ manifest.padding_px = cfg.PADDING_PX
            /\ (~cfg.FORCE_POW2 => CanvasW = rawW /\ CanvasH = rawH)
            /\ (cfg.FORCE_POW2 => Smallest(CanvasW, rawW) /\ Smallest(CanvasH, rawH))
            /\ (cfg = RowConfig256 /\ NSlots = 2 => CanvasW = 560 /\ CanvasH = 288)

C2_Witness ==
    /\ manifest.written /\ cfg.FORCE_POW2
    /\ CanvasW > Cols * TileW + (Cols + 1) * manifest.padding_px
    /\ CanvasH = Rows * TileH + (Rows + 1) * manifest.padding_px

\* C3: every rect of the manifest has 0 <= u0 < u1 <= 1 and 0 <= v0 < v1 <= 1, its
\* pixel rect lies inside the canvas, and the rects of two distinct slots do not
\* overlap, in every layout mode, with and without FORCE_POW2.
C3_RectsInsideAndDisjoint ==
    manifest.written =>
        /\ \A i \in DOMAIN Rects :
              LET r  == Rects[i].rect
                  px == atlas.rects_px[i][2]
              IN  /\ RatLe(Zero, r.u0) /\ RatLt(r.u0, r.u1) /\ RatLe(r.u1, One)
                  /\ RatLe(Zero, r.v0) /\ RatLt(r.v0, r.v1) /\ RatLe(r.v1, One)
                  /\ 0 <= px[1] /\ px[1] < px[3] /\ px[3] <= CanvasW
                  /\ 0 <= px[2] /\ px[2] < px[4] /\ px[4] <= CanvasH
        /\ \A i, j \in DOMAIN Rects :
              i # j =>
                  LET a == Rects[i].rect
                      b == Rects[j].rect
                  IN  /\ Rects[i].slot # Rects[j].slot
                      /\ \/ RatLe(a.u1, b.u0) \/ RatLe(b.u1, a.u0)
                         \/ RatLe(a.v1, b.v0) \/ RatLe(b.v1, a.v0)

C3_Witness ==
    /\ manifest.written /\ Len(Rects) = 3 /\ Rows = 2 /\ Cols = 2
    /\ cfg.PADDING_PX = 0 /\ cfg.FORCE_POW2

\* the mesh as the remap loop finds it: the destination layer exists and is
\* the active, render-active layer
MeshAtLoopStart == RemapBegin(obj, UV_NAME)
DstData == dup.uv_layers[LayerIndex(dup, UV_NAME)].data
Loops(poly) == poly.loop_start .. (poly.loop_start + poly.loop_total - 1)
SlotOfPoly(k) == obj.polygons[k].material_index
\* the UV the remap reads for loop li of polygon k
SourceUV(k, li) ==
    MeshAtLoopStart.uv_layers[SrcLayer(MeshAtLoopStart, slot_to_src_uv, SlotOfPoly(k))].data[li + 1]

C5_SourceSetsUnchanged ==
    pc = "done" =>
        \A k \in DOMAIN obj.polygons :
            LET si   == SrcLayer(MeshAtLoopStart, slot_to_src_uv, SlotOfPoly(k))
                name == MeshAtLoopStart.uv_layers[si].name
            IN  LayerIndex(obj, name) # 0 =>
                    dup.uv_layers[LayerIndex(dup, name)].data
                        = obj.uv_layers[LayerIndex(obj, name)].data

\* the slots that resolved no channel
Skipped(slot_idx) == \A i \in DOMAIN slot_images : slot_images[i].slot_index # slot_idx

\* the render-active UV-set before the remap, else the first available one
PrimaryBefore == IF obj.active_render # 0 THEN obj.active_render ELSE 1

\* C6: a slot that resolved no channel has no rect and no source UV-set, and the
\* destination UVs of its polygons are a verbatim copy of the UV-set that was
\* render-active before the remap.
C6_SkippedSlotCopiesPrimary ==
    pc = "done" =>
        \A k \in DOMAIN obj.polygons :
            Skipped(SlotOfPoly(k)) =>
                /\ ~HasRect(Rects, SlotOfPoly(k))
                /\ SrcUvOf(slot_to_src_uv, SlotOfPoly(k)) = ""
                /\ \A li \in Loops(obj.polygons[k]) :
                      DstData[li + 1] = obj.uv_layers[PrimaryBefore].data[li + 1]

\* C7: an explicit grid with fewer cells than resolved slots ends in a fatal
\* error: no tile is composited, no atlas or manifest is written.
C7_UnderProvisionedGridIsFatal ==
    (/\ cfg.LAYOUT.mode = "grid"
     /\ idx = Len(materials)
     /\ Max(1, cfg.LAYOUT.r) * Max(1, cfg.LAYOUT.c) < NSlots)
        => /\ ~manifest.written /\ ~atlas.saved
           /\ atlas.base = <<>> /\ pc \in {"resolve", "error"}

\* the tile of placed slot i in a channel's canvas, against that slot's image path
TileIs(tile, path, default) ==
    IF path = "" THEN tile.src = "" /\ tile.fill = default
    ELSE tile.src = path /\ tile.size = <<TileW, TileH>>

\* C8: a placed slot's tile is the resized source image where the slot has one,
\* and otherwise the channel's own default: color (0,0,0), normal (128,128,255),
\* roughness 128, metalness 0.
C8_ChannelDefaults ==
    atlas.saved =>
        \A i \in DOMAIN atlas.base :
            /\ TileIs(atlas.base[i], slot_images[i].base_path, <<0, 0, 0>>)
            /\ TileIs(atlas.norm[i], slot_images[i].normal_path, <<128, 128, 255, 255>>)
            /\ TileIs(atlas.rough[i], slot_images[i].roughness_path, <<128>>)
            /\ TileIs(atlas.metal[i], slot_images[i].metalness_path, <<0>>)

\* C9: once some slot resolved some channel the build does not raise, also when
\* a non-skipped slot has no color image.
C9_MissingChannelIsRecoverable ==
    (idx = Len(materials) /\ slot_images # <<>>) => pc # "error"

\* a graph whose only image node is linked to the Roughness input and matches
\* no name keyword
RoughnessOnly(mat) ==
    /\ mat.use_nodes
    /\ _find_principled(mat.nodes) # 0
    /\ LET nt == mat.nodes
           b  == nt[_find_principled(nt)]
       IN  /\ Cardinality({i \in DOMAIN nt : IsTexImage(nt[i])}) = 1
           /\ b.inputs.Roughness # 0 /\ IsTexImage(nt[b.inputs.Roughness])
           /\ nt[b.inputs.Roughness].image.path # ""
           /\ nt[b.inputs.Roughness].keys = {}
           /\ b.inputs.BaseColor = 0 /\ b.inputs.Normal = 0 /\ b.inputs.Metallic = 0

\* C10: a slot whose graph supplies only a roughness image resolves that image
\* for roughness and nothing for color, normal and metalness; its color tile is
\* the color default and its roughness tile the resized source.
C10_RoughnessOnlySlot ==
    \A i \in DOMAIN slot_images :
        LET s   == slot_images[i]
            mat == materials[s.slot_index + 1]
        IN  RoughnessOnly(mat) =>
              /\ s.roughness_path = mat.nodes[mat.nodes[_find_principled(mat.nodes)].inputs.Roughness].image.path
              /\ s.base_path = "" /\ s.normal_path = "" /\ s.metalness_path = ""
              /\ (atlas.saved /\ i <= Len(atlas.base) =>
                    /\ atlas.base[i].src = "" /\ atlas.base[i].fill = <<0, 0, 0>>
                    /\ atlas.rough[i].src = s.roughness_path)

====
